---- MODULE Spec2Model ----
(***************************************************************************)
(* Tessendorf ocean deformer (src/Tess_Waves.py): the Phillips spectrum,   *)
(* the per-point lattice sum and the process-wide random generator it      *)
(* reseeds and draws from.                                                 *)
(*                                                                         *)
(* Numbers.  Python floats are modelled as fixed-point numbers: an integer *)
(* n stands for the real n / ONE.  Every product and quotient is rounded   *)
(* toward zero onto that grid, so, as with doubles, a product of two small *)
(* positive numbers can be exactly 0 (underflow).  The grid's quantum      *)
(* 1/ONE plays the part of the smallest positive double; it is far coarser,*)
(* so underflow sets in at larger magnitudes than in the program.  The     *)
(* guard threshold 0.0001 lies below the quantum and is rescaled (EPS).    *)
(* math.exp, math.cos and math.sin are modelled by fixed-point             *)
(* approximations (FExp, FCos, FSin).                                      *)
(***************************************************************************)
EXTENDS Integers, Sequences, FiniteSets, TLC

VARIABLES
    rng,     \* the process-wide generator of module random
    frames,  \* the local variables of each invocation of tessendorf_displacement
    noted,   \* the generator state a caller noted before its call (or NotNoted)
    ph,      \* a direct call of phillips_spectrum: its arguments and outcome
    mesh,    \* the scene object the deformer is applied to
    last,    \* the latest apply or reset on that object, and what it came to
    ui,      \* the Tessendorf window: its selected-object field, the selection
    rope,    \* a run of create_rope (src/Lines_Between_Spheres.py)
    pick,    \* a call of get_random_farthest_points (src/Noise_Curve_*.py)
    sx       \* a call of SimplexNoise.noise3d (src/Mountain_Maya.py)

vars == <<rng, frames, noted, ph, mesh, last, ui, rope, pick, sx>>

\* The state of the other scripts, which the ocean deformer leaves alone.
scripts == <<rope, pick, sx>>

\* Quanta per unit: n stands for n / ONE.
ONE == 32 * 32

\* ------------------------------------------------------------------------
\* Float arithmetic on the grid
\* ------------------------------------------------------------------------

Abs(n) == IF n < 0 THEN -n ELSE n

Sgn(n) == IF n < 0 THEN -1 ELSE IF n > 0 THEN 1 ELSE 0

\* Integer quotient rounded toward zero (n / d for d # 0).
TruncDiv(n, d) == Sgn(n) * Sgn(d) * (Abs(n) \div Abs(d))

\* float * float
FMul(a, b) == TruncDiv(a * b, ONE)

\* float / float, for b # 0 (Python raises ZeroDivisionError for b = 0; the
\* callers below test the denominator before they evaluate FDiv).
FDiv(a, b) == TruncDiv(a * ONE, b)

RECURSIVE ISqrt(_)
\* Largest r with r * r <= n.
ISqrt(n) ==
    IF n < 2 THEN n
    ELSE LET s == 2 * ISqrt(n \div 4)
         IN  IF (s + 1) * (s + 1) > n THEN s ELSE s + 1

\* math.sqrt(a) for a >= 0 (math.sqrt raises ValueError for a < 0).
FSqrt(a) == ISqrt(a * ONE)

RECURSIVE ExpNeg(_)
\* exp(-u) for u >= 0: 1 - u + u^2/2 for small u, and exp(-u/2)^2 above;
\* exactly 0 once exp(-u) is below the quantum.
ExpNeg(u) ==
    IF u > 7 * ONE THEN 0
    ELSE IF u <= ONE \div 8 THEN ONE - u + (FMul(u, u) \div 2)
    ELSE LET h == ExpNeg(u \div 2) IN FMul(h, h)

\* math.exp(t); the program only passes t <= 0.
FExp(t) == IF t <= 0 THEN ExpNeg(-t) ELSE ONE + t

\* math.pi
PI == (ONE * 355) \div 113

\* sin(y) for 0 <= y <= PI (Bhaskara's rational approximation).
SinHalf(y) ==
    LET p == y * (PI - y)
    IN  (16 * p) \div ((5 * PI * PI - 4 * p) \div ONE)

\* math.sin(x)
FSin(x) ==
    LET r == x % (2 * PI)
    IN  IF r <= PI THEN SinHalf(r) ELSE -SinHalf(r - PI)

\* math.cos(x)
FCos(x) == FSin(x + (PI \div 2))

\* ------------------------------------------------------------------------
\* Failing operations
\* ------------------------------------------------------------------------

\* One evaluated division (arg is its denominator) or square root (arg is its
\* argument), in evaluation order.
Div(d) == [op |-> "div", arg |-> d]

Sqrt(a) == [op |-> "sqrt", arg |-> a]

\* Python raises ZeroDivisionError for x / 0.0 and ValueError for
\* math.sqrt of a negative number.
Fails(o) == \/ o.op = "div" /\ o.arg = 0
            \/ o.op = "sqrt" /\ o.arg < 0

ErrorOf(o) == IF o.op = "div" THEN "ZeroDivisionError" ELSE "ValueError"

\* Index of the first failing operation of ops, 0 when none fails.
FirstFailure(ops) ==
    IF \E j \in 1..Len(ops) : Fails(ops[j])
    THEN CHOOSE j \in 1..Len(ops) :
            Fails(ops[j]) /\ \A h \in 1..(j - 1) : ~Fails(ops[h])
    ELSE 0

\* ------------------------------------------------------------------------
\* phillips_spectrum (src/Tess_Waves.py:6-56)
\* ------------------------------------------------------------------------

\* gravity=9.81
GRAVITY == (ONE * 981) \div 100

\* A = 0.0081
A_PHILLIPS == (ONE * 81) \div 10000

\* The guard threshold 0.0001 of lines 15, 23, 85 and 118.  0.0001 is below
\* the quantum, so it is rescaled to a grid value that keeps what the code
\* relies on: there are non-zero values below it, and EPS^4 does not
\* underflow (as 1e-16 does not underflow in doubles).
EPS == ONE \div 2

\* The guard testing for k_length == 0.0 only.
DegenerateKZero(k_length) == k_length = 0

\* if k_length < 0.0001: return 0.0
DegenerateK(k_length) == k_length < EPS

\* The wind guard with the threshold 1.0 in place of 0.0001, so that unit
\* wind directions are replaced by (1.0, 0.0) too.
NearZeroWindUnit(wind_length) == wind_length <= ONE

\* The wind guard testing for wind_length == 0.0 only.
NearZeroWindZero(wind_length) == wind_length = 0

\* if wind_length < 0.0001: use (1.0, 0.0)
NearZeroWind(wind_length) == wind_length < EPS

\* The clamp with the threshold 0.5 in place of 0.0.
SuppressOppositeWide(k_dot_w) == IF k_dot_w < ONE \div 2 THEN 0 ELSE k_dot_w

\* if k_dot_w < 0.0: k_dot_w = 0.0
SuppressOpposite(k_dot_w) == IF k_dot_w < 0 THEN 0 ELSE k_dot_w

\* The spectrum weighted by k_dot_w itself, unclamped and unsquared.
AlignmentLinear(k_dot_w) == k_dot_w

\* The factor (k_dot_w * k_dot_w) of line 54, of the clamped k_dot_w.
AlignmentFactor(k_dot_w) ==
    LET c == SuppressOpposite(k_dot_w) IN FMul(c, c)

\* Lines 13-31: k_dot_w, the cosine of the angle between the wave vector
\* and the normalized wind direction, for k_length >= 0.0001.
WindAlignment(kx, kz, wind_dir_x, wind_dir_z) ==
    LET k_length    == FSqrt(FMul(kx, kx) + FMul(kz, kz))
        wind_root   == FMul(wind_dir_x, wind_dir_x) + FMul(wind_dir_z, wind_dir_z)
        calm        == NearZeroWind(FSqrt(wind_root))
        wdx         == IF calm THEN ONE ELSE wind_dir_x
        wdz         == IF calm THEN 0 ELSE wind_dir_z
        wind_length == IF calm THEN ONE ELSE FSqrt(wind_root)
        wx          == FDiv(wdx, wind_length)
        wz          == FDiv(wdz, wind_length)
    IN  FDiv(FMul(kx, wx) + FMul(kz, wz), k_length)

\* The body of phillips_spectrum, with factor the alignment factor
\* (k_dot_w * k_dot_w) of line 54.  The outcome of a call: err = "none"
\* and val the returned value, or err the exception raised; ops are the
\* divisions and square roots evaluated, in order, up to the return or
\* the raise.
SpectrumWith(kx, kz, wind_speed, wind_dir_x, wind_dir_z, factor) ==
    LET k_root      == FMul(kx, kx) + FMul(kz, kz)
        k_length    == FSqrt(k_root)
        L           == FDiv(FMul(wind_speed, wind_speed), GRAVITY)
        wind_root   == FMul(wind_dir_x, wind_dir_x) + FMul(wind_dir_z, wind_dir_z)
        calm        == NearZeroWind(FSqrt(wind_root))
        wind_length == IF calm THEN ONE ELSE FSqrt(wind_root)
        k_length_2  == FMul(k_length, k_length)
        k_length_4  == FMul(k_length_2, k_length_2)
        kL          == FMul(k_length, L)
        kL2         == FMul(kL, kL)
        l_small     == FDiv(L, 1000 * ONE)
        exp_term    == FMul(FExp(FDiv(-ONE, kL2)),
                            FExp(-FMul(k_length_2, FMul(l_small, l_small))))
        phillips    == FMul(FDiv(FMul(A_PHILLIPS, exp_term), k_length_4),
                            factor)
        head        == <<Sqrt(k_root)>>
        ops         == head \o <<Div(GRAVITY), Sqrt(wind_root), Div(wind_length),
                                 Div(wind_length), Div(k_length), Div(kL2),
                                 Div(1000 * ONE), Div(k_length_4)>>
        z           == FirstFailure(ops)
    IN  IF Fails(head[1])
        THEN [val |-> 0, err |-> ErrorOf(head[1]), ops |-> head]
        ELSE IF DegenerateK(k_length)
        THEN [val |-> 0, err |-> "none", ops |-> head]
        ELSE IF z # 0
        THEN [val |-> 0, err |-> ErrorOf(ops[z]), ops |-> SubSeq(ops, 1, z)]
        ELSE [val |-> phillips, err |-> "none", ops |-> ops]

\* phillips_spectrum(kx, kz, wind_speed, wind_dir_x, wind_dir_z)
phillips_spectrum(kx, kz, wind_speed, wind_dir_x, wind_dir_z) ==
    SpectrumWith(kx, kz, wind_speed, wind_dir_x, wind_dir_z,
                 AlignmentFactor(WindAlignment(kx, kz, wind_dir_x, wind_dir_z)))

\* ------------------------------------------------------------------------
\* The process-wide random generator (module random)
\* ------------------------------------------------------------------------

\* The generator's state: the stream it is on (the seed that started it;
\* stream 0 is the start-up state, seeded by the operating system) and the
\* number of values drawn from that stream.

\* random.seed(seed) when the generator is already on that seed's stream
\* and the reseed is left out.
SeededOnce(seed) == IF rng.stream = seed THEN rng ELSE [stream |-> seed, pos |-> 0]

\* random.seed(seed) left out altogether.
SeededNever(seed) == rng

\* The generator's state after random.seed(seed).
Seeded(seed) == [stream |-> seed, pos |-> 0]

\* The value the next draw returns: a fixed function of the stream and the
\* position in it (the generator is deterministic once seeded), ranging
\* over -2.0 .. 2.0 in steps of 0.5.
GaussValue(g) ==
    (((g.stream * 5 + g.pos * 7 + g.stream * g.pos * 3 + g.pos * g.pos) % 9) - 4)
        * (ONE \div 2)

\* The generator's state after one draw.
Drawn(g) == [g EXCEPT !.pos = g.pos + 1]

\* ------------------------------------------------------------------------
\* tessendorf_displacement (src/Tess_Waves.py:58-122)
\* ------------------------------------------------------------------------

\* Python's a // b for b > 0 (floor division).
PyFloorDiv(a, b) == a \div b

\* list(range(a, b))
PyRange(a, b) == [j \in 1..(IF b > a THEN b - a ELSE 0) |-> a + j - 1]

\* range(-resolution//2, resolution//2): unary minus binds tighter than //.
Axis(resolution) == PyRange(PyFloorDiv(-resolution, 2), PyFloorDiv(resolution, 2))

\* The nested loops with nz in the outer loop.
SweepTransposed(resolution) ==
    LET r == PyRange(PyFloorDiv(-resolution, 2), PyFloorDiv(resolution, 2))
        n == Len(r)
    IN  [j \in 1..(n * n) |-> <<r[((j - 1) % n) + 1], r[((j - 1) \div n) + 1]>>]

\* The index pairs <<nx, nz>> in the order the nested loops visit them.
Sweep(resolution) ==
    LET r == Axis(resolution)
        n == Len(r)
    IN  [j \in 1..(n * n) |-> <<r[((j - 1) \div n) + 1], r[((j - 1) % n) + 1]>>]

\* dk = 2.0 * math.pi / patch_size
WaveStep(patch_size) == FDiv(2 * PI, patch_size)

\* kx, kz and k_length of lattice index v.
WaveVector(dk, v) ==
    LET kx == v[1] * dk
        kz == v[2] * dk
    IN  [nx |-> v[1], nz |-> v[2], kx |-> kx, kz |-> kz,
         k_length |-> FSqrt(FMul(kx, kx) + FMul(kz, kz))]

\* The two `continue` tests of the loop body (lines 77 and 85).
Skipped(w) == (w.nx = 0 /\ w.nz = 0) \/ w.k_length < EPS

\* random.gauss(0, 1) * math.sqrt(P_k * 0.5), given the value g drawn.
Amplitude(g, P_k) == FMul(g, FSqrt(FMul(P_k, ONE \div 2)))

\* if k_length > 0.0001 (line 118)
Choppy(k_length) == k_length > EPS

\* Lines 96-120: what the wave vector w with amplitude (h0_real, h0_imag)
\* adds to height, displacement_x and displacement_z.
Term(a, w, h0_real, h0_imag) ==
    LET omega         == FSqrt(FMul(GRAVITY, w.k_length))
        phase         == FMul(omega, a.time)
        cos_phase     == FCos(phase)
        sin_phase     == FSin(phase)
        ht_real       == FMul(h0_real, cos_phase) - FMul(h0_imag, sin_phase)
        ht_imag       == FMul(h0_real, sin_phase) + FMul(h0_imag, cos_phase)
        spatial_phase == FMul(w.kx, a.x) + FMul(w.kz, a.z)
        cos_spatial   == FCos(spatial_phase)
        sin_spatial   == FSin(spatial_phase)
        wave_contribution ==
            FMul(FMul(ht_real, cos_spatial) - FMul(ht_imag, sin_spatial),
                 a.wave_amplitude)
    IN  [height |-> wave_contribution,
         displacement_x |->
            IF Choppy(w.k_length)
            THEN FMul(FMul(-a.choppiness, FDiv(w.kx, w.k_length)), wave_contribution)
            ELSE 0,
         displacement_z |->
            IF Choppy(w.k_length)
            THEN FMul(FMul(-a.choppiness, FDiv(w.kz, w.k_length)), wave_contribution)
            ELSE 0]

\* P_k = phillips_spectrum(kx, kz, wind_speed, wind_dir_x, wind_dir_z)
SpectrumAt(a, w) ==
    phillips_spectrum(w.kx, w.kz, a.wind_speed, a.wind_dir_x, a.wind_dir_z)

\* The exception the loop body raises for wave vector w before it draws,
\* "none" when it raises none: from phillips_spectrum (line 89), or from
\* math.sqrt(P_k * 0.5) (line 92).
BodyError(a, w) ==
    LET P == SpectrumAt(a, w)
    IN  IF P.err # "none" THEN P.err
        ELSE IF FMul(P.val, ONE \div 2) < 0 THEN "ValueError"
        ELSE "none"

\* ------------------------------------------------------------------------
\* State
\* ------------------------------------------------------------------------

\* Two invocations of tessendorf_displacement.  The program runs them one
\* after the other (the vertex loop of apply_tessendorf_to_mesh, lines
\* 181-193); SpecConc runs them on two threads.
Calls == {"c1", "c2"}

\* Largest resolution of the calls.
MaxRes == 3

\* Other code draws from the generator only while it has handed out fewer
\* than MaxPos values of its stream.
MaxPos == 2

\* The frame of an invocation that has not been called yet.
NoArgs ==
    [x |-> 0, z |-> 0, time |-> 0, resolution |-> 0, patch_size |-> 0,
     wind_speed |-> 0, wind_dir_x |-> 0, wind_dir_z |-> 0,
     wave_amplitude |-> 0, choppiness |-> 0, seed |-> 0]

Idle ==
    [pc |-> "idle", a |-> NoArgs, dk |-> 0, i |-> 0,
     height |-> 0, displacement_x |-> 0, displacement_z |-> 0,
     g_real |-> 0, draws |-> <<>>, reseeds |-> 0, err |-> "none"]

NotNoted == [stream |-> -1, pos |-> 0]

\* No direct call of phillips_spectrum.
NoCall ==
    [called |-> FALSE, kx |-> 0, kz |-> 0, wind_speed |-> 0,
     wind_dir_x |-> 0, wind_dir_z |-> 0, out |-> [val |-> 0, err |-> "none", ops |-> <<>>]]

\* The Tessendorf window as create_tessendorf_ui builds it (line 308: the
\* field reads "None"): nothing selected, no button pressed yet.  name is
\* the name of the scene object, event what the latest button press did.
NoUI == [field |-> "None", selection |-> <<>>, name |-> "", event |-> "none"]

\* create_rope not called.
NoRope ==
    [pc |-> "idle", faces |-> <<>>, num_cvs |-> 0, full_mesh |-> FALSE,
     curve_to_curve |-> FALSE, all_faces |-> {}, stack |-> <<>>,
     comp_faces |-> {}, components |-> <<>>, centers |-> <<>>,
     sphere_curves |-> <<>>, all_curves |-> <<>>, grp |-> <<>>, ret |-> <<>>]

\* get_random_farthest_points not called.
NoPick ==
    [pc |-> "idle", verts |-> <<>>, min_distance |-> 0, fallback |-> "farthest",
     attempt |-> 0, ret |-> <<>>]

\* SimplexNoise.noise3d not called.
NoNoise ==
    [called |-> FALSE, xin |-> 0, yin |-> 0, zin |-> 0,
     t |-> 0, falloff |-> <<>>, dots |-> <<>>, n |-> <<>>, out |-> 0]

\* No object of that name in the scene.
NoMesh == [kind |-> "missing", vtx |-> <<>>, attr |-> FALSE, text |-> <<>>]

\* Neither apply_tessendorf_to_mesh nor reset_mesh_to_original called yet.
NoOp ==
    [op |-> "none", ret |-> "none", err |-> "none", at |-> "none", p |-> NoArgs,
     coords |-> <<>>, before |-> <<>>, start |-> <<>>, n |-> 0, i |-> 0,
     bbox |-> <<0, 0, 0, 0, 0, 0>>, wrote |-> FALSE,
     prev |-> [op |-> "none", ret |-> "none", p |-> NoArgs]]

Init ==
    /\ rng = [stream |-> 0, pos |-> 0]
    /\ frames = [c \in Calls |-> Idle]
    /\ noted = NotNoted
    /\ ph = NoCall
    /\ mesh = NoMesh
    /\ last = NoOp
    /\ ui = NoUI
    /\ rope = NoRope
    /\ pick = NoPick
    /\ sx = NoNoise

\* The argument records of a call.
ArgsOver(points, resolutions, patch_sizes, wind_speeds, seeds) ==
    { [x |-> p[1], z |-> p[2], time |-> p[3], resolution |-> r, patch_size |-> ps,
       wind_speed |-> ws, wind_dir_x |-> -ONE, wind_dir_z |-> -ONE,
       wave_amplitude |-> ONE, choppiness |-> ONE, seed |-> sd] :
      p \in points, r \in resolutions, ps \in patch_sizes,
      ws \in wind_speeds, sd \in seeds }

\* <<x, z, time>>
Samples == { <<0, 0, 0>>, <<ONE, ONE \div 2, 0>>, <<0, 0, ONE>> }

\* 8.0: dk is above the threshold; 32.0: dk is below it, so the wave vectors
\* nearest the origin are skipped.
PatchSizes == { 8 * ONE, 32 * ONE }

\* 6.0, and 0.5, for which (k * L)^2 underflows.
WindSpeeds == { 6 * ONE, ONE \div 2 }

Seeds == { 1, 2 }

\* ------------------------------------------------------------------------
\* Steps of one invocation c
\* ------------------------------------------------------------------------

Running(c) == frames[c].pc \in {"seed", "loop", "imag"}

\* The wave vector the loops of invocation c are at.
Current(c) ==
    LET f == frames[c] IN WaveVector(f.dk, Sweep(f.a.resolution)[f.i])

AtVector(c) ==
    LET f == frames[c]
    IN  f.pc = "loop" /\ f.i <= Len(Sweep(f.a.resolution))

\* Lines 58-69: the call binds its arguments, zeroes the sums and computes
\* dk; patch_size = 0 raises ZeroDivisionError.  (What the caller notes of
\* the generator is the caller's: PlainCall, NotedCall.)
Call(c, a) ==
    /\ ~Running(c)
    /\ frames' = [frames EXCEPT ![c] =
          IF a.patch_size = 0
          THEN [Idle EXCEPT !.pc = "error", !.a = a, !.err = "ZeroDivisionError"]
          ELSE [Idle EXCEPT !.pc = "seed", !.a = a, !.dk = WaveStep(a.patch_size)]]
    /\ UNCHANGED <<rng, ph, mesh, last, ui, scripts>>

\* Line 72: random.seed(seed)
Reseed(c) ==
    /\ frames[c].pc = "seed"
    /\ rng' = Seeded(frames[c].a.seed)
    /\ frames' = [frames EXCEPT ![c].pc = "loop", ![c].i = 1,
                                ![c].reseeds = frames[c].reseeds + 1]
    /\ UNCHANGED <<noted, ph, mesh, last, ui, scripts>>

\* Lines 77-78 and 85-86: continue
Skip(c) ==
    /\ AtVector(c)
    /\ Skipped(Current(c))
    /\ frames' = [frames EXCEPT ![c].i = frames[c].i + 1]
    /\ UNCHANGED <<rng, noted, ph, mesh, last, ui, scripts>>

\* Lines 89 and 92 when one of them raises.
Raise(c) ==
    /\ AtVector(c)
    /\ ~Skipped(Current(c))
    /\ BodyError(frames[c].a, Current(c)) # "none"
    /\ frames' = [frames EXCEPT ![c].pc = "error",
                                ![c].err = BodyError(frames[c].a, Current(c))]
    /\ UNCHANGED <<rng, noted, ph, mesh, last, ui, scripts>>

\* Lines 89 and 92: the spectrum, and the first draw (h0_real).
DrawReal(c) ==
    /\ AtVector(c)
    /\ ~Skipped(Current(c))
    /\ BodyError(frames[c].a, Current(c)) = "none"
    /\ LET w == Current(c)
           g == GaussValue(rng)
       IN  frames' = [frames EXCEPT
              ![c].pc = "imag",
              ![c].g_real = g,
              ![c].draws = Append(frames[c].draws,
                  [nx |-> w.nx, nz |-> w.nz, stream |-> rng.stream,
                   pos |-> rng.pos, g |-> g])]
    /\ rng' = Drawn(rng)
    /\ UNCHANGED <<noted, ph, mesh, last, ui, scripts>>

\* Lines 93-120: the second draw (h0_imag), and the sums.
DrawImag(c) ==
    /\ frames[c].pc = "imag"
    /\ LET f == frames[c]
           w == Current(c)
           g == GaussValue(rng)
           P_k == SpectrumAt(f.a, w).val
           t == Term(f.a, w, Amplitude(f.g_real, P_k), Amplitude(g, P_k))
       IN  frames' = [frames EXCEPT
              ![c].pc = "loop",
              ![c].i = f.i + 1,
              ![c].height = f.height + t.height,
              ![c].displacement_x = f.displacement_x + t.displacement_x,
              ![c].displacement_z = f.displacement_z + t.displacement_z,
              ![c].draws = Append(f.draws,
                  [nx |-> w.nx, nz |-> w.nz, stream |-> rng.stream,
                   pos |-> rng.pos, g |-> g])]
    /\ rng' = Drawn(rng)
    /\ UNCHANGED <<noted, ph, mesh, last, ui, scripts>>

\* Line 122: return height, displacement_x, displacement_z
Return(c) ==
    /\ frames[c].pc = "loop"
    /\ frames[c].i > Len(Sweep(frames[c].a.resolution))
    /\ frames' = [frames EXCEPT ![c].pc = "done"]
    /\ UNCHANGED <<rng, noted, ph, mesh, last, ui, scripts>>

\* The triple a finished invocation returned.
Result(c) ==
    <<frames[c].height, frames[c].displacement_x, frames[c].displacement_z>>

\* Any other draw from the process-wide generator, such as random.uniform
\* of Lines_Between_Spheres.py:13.
OtherDraw ==
    /\ rng.pos < MaxPos
    /\ rng' = Drawn(rng)
    /\ UNCHANGED <<frames, noted, ph, mesh, last, ui, scripts>>

\* The steps of invocation c after its call.
Step(c) == Reseed(c) \/ Skip(c) \/ Raise(c) \/ DrawReal(c) \/ DrawImag(c) \/ Return(c)

\* A call whose caller does not look at the generator.
PlainCall(c, a) == Call(c, a) /\ UNCHANGED noted

\* A call whose caller first notes the generator's state (random.getstate()).
NotedCall(c, a) == Call(c, a) /\ noted' = rng

\* phillips_spectrum called directly, once, with the arguments held in ph.
PhillipsCall ==
    /\ ~ph.called
    /\ ph' = [ph EXCEPT !.called = TRUE,
                        !.out = phillips_spectrum(ph.kx, ph.kz, ph.wind_speed,
                                                  ph.wind_dir_x, ph.wind_dir_z)]
    /\ UNCHANGED <<rng, frames, noted, mesh, last, ui, scripts>>

\* ------------------------------------------------------------------------
\* Specifications
\* ------------------------------------------------------------------------

NoneRunning == \A d \in Calls : ~Running(d)

\* The program: a single thread, so an invocation starts, and other code
\* draws, only while no invocation is running.  Both invocations' frames
\* are kept, so that successive calls can be compared.
PairArgs == ArgsOver(Samples, (MaxRes - 1)..MaxRes, PatchSizes, WindSpeeds, Seeds)

Next ==
    \/ \E c \in Calls, a \in PairArgs : NoneRunning /\ PlainCall(c, a)
    \/ \E c \in Calls : Step(c)
    \/ NoneRunning /\ OtherDraw

Spec == Init /\ [][Next]_vars

\* One invocation at a time, over all the arguments, its caller noting the
\* generator's state before each call.
SoloArgs == ArgsOver(Samples, 1..MaxRes, PatchSizes, WindSpeeds, Seeds)

NextSolo ==
    \/ \E a \in SoloArgs : NotedCall("c1", a)
    \/ Step("c1")
    \/ ~Running("c1") /\ OtherDraw

SpecSolo == Init /\ [][NextSolo]_vars

\* The patch_size whose dk is exactly the threshold 0.0001.
BoundaryPatch == FDiv(2 * PI, EPS)

\* One invocation at a time with parameters of any kind, ill-formed ones
\* included: resolution 0, patch_size 0 and a negative patch_size; and the
\* patch_size that puts wave vectors exactly on the threshold.
AnyArgs ==
    ArgsOver(Samples, 0..(MaxRes - 1), PatchSizes \cup {0, -8 * ONE, BoundaryPatch},
             WindSpeeds, Seeds)

NextAny ==
    \/ \E a \in AnyArgs : NotedCall("c1", a)
    \/ Step("c1")
    \/ ~Running("c1") /\ OtherDraw

SpecAny == Init /\ [][NextAny]_vars

\* Two invocations on two threads: their steps interleave in any order.
ConcArgs == ArgsOver({<<ONE, ONE \div 2, 0>>}, {1}, PatchSizes, WindSpeeds, Seeds)

NextConc ==
    \/ \E c \in Calls, a \in ConcArgs : PlainCall(c, a)
    \/ \E c \in Calls : Step(c)

SpecConc == Init /\ [][NextConc]_vars

\* phillips_spectrum as a function of its arguments.
Components == { -2 * ONE, -ONE, -(ONE \div 4), 0, ONE \div 4, ONE \div 2, ONE }

WindComponents == { -ONE, -(ONE \div 4), 0, ONE \div 4, ONE }

InitPhillips ==
    /\ rng = [stream |-> 0, pos |-> 0]
    /\ frames = [c \in Calls |-> Idle]
    /\ noted = NotNoted
    /\ \E kx \in Components, kz \in Components, ws \in WindSpeeds \cup {0},
          wx \in WindComponents, wz \in WindComponents :
            ph = [NoCall EXCEPT !.kx = kx, !.kz = kz, !.wind_speed = ws,
                                !.wind_dir_x = wx, !.wind_dir_z = wz]
    /\ mesh = NoMesh
    /\ last = NoOp
    /\ ui = NoUI
    /\ rope = NoRope
    /\ pick = NoPick
    /\ sx = NoNoise

NextPhillips == PhillipsCall

SpecPhillips == InitPhillips /\ [][NextPhillips]_vars

\* ------------------------------------------------------------------------
\* tessendorf_displacement as a function: the call run on its own
\* ------------------------------------------------------------------------

RECURSIVE SumFrom(_, _, _, _, _)
\* The loops from sweep position i on, with the generator in state g and
\* the sums so far in acc = <<height, displacement_x, displacement_z>>.
SumFrom(a, dk, i, g, acc) ==
    IF i > Len(Sweep(a.resolution))
    THEN [err |-> "none", out |-> acc, rng |-> g]
    ELSE LET w == WaveVector(dk, Sweep(a.resolution)[i])
         IN  IF Skipped(w) THEN SumFrom(a, dk, i + 1, g, acc)
             ELSE IF BodyError(a, w) # "none"
             THEN [err |-> BodyError(a, w), out |-> acc, rng |-> g]
             ELSE LET P_k == SpectrumAt(a, w).val
                      t   == Term(a, w, Amplitude(GaussValue(g), P_k),
                                        Amplitude(GaussValue(Drawn(g)), P_k))
                  IN  SumFrom(a, dk, i + 1, Drawn(Drawn(g)),
                              <<acc[1] + t.height, acc[2] + t.displacement_x,
                                acc[3] + t.displacement_z>>)

\* The outcome of tessendorf_displacement(a) when nothing else touches the
\* generator during the call: err, the triple out, and the generator's
\* state rng afterwards.
tessendorf_displacement(a) ==
    IF a.patch_size = 0
    THEN [err |-> "ZeroDivisionError", out |-> <<0, 0, 0>>, rng |-> rng]
    ELSE SumFrom(a, WaveStep(a.patch_size), 1, Seeded(a.seed), <<0, 0, 0>>)

\* The step-by-step invocation and the function agree when the invocation
\* runs on its own (checked under Spec and SpecSolo).
StepwiseIsFunction ==
    \A c \in Calls :
        /\ frames[c].pc = "done" =>
              /\ tessendorf_displacement(frames[c].a).err = "none"
              /\ tessendorf_displacement(frames[c].a).out = Result(c)
        /\ frames[c].pc = "error" =>
              tessendorf_displacement(frames[c].a).err = frames[c].err

\* ------------------------------------------------------------------------
\* apply_tessendorf_to_mesh and reset_mesh_to_original
\* (src/Tess_Waves.py:124-226)
\* ------------------------------------------------------------------------

\* The scene object obj_name: kind is "missing" (no such object),
\* "transform" (an object without a shape), "curve" (its shape is not a
\* mesh) or "mesh"; vtx are the world-space vertex positions <<x, y, z>>;
\* attr says whether the attribute originalPositions exists and text is
\* its string value.  An apply runs vertex by vertex: last.i is the vertex
\* its loop is at, last.bbox the bounding box it took, last.coords the
\* <<ocean_x, ocean_z>> it has passed to tessendorf_displacement, last.ret
\* is "running" until it returns or raises ("raised": last.at says whether
\* the normalization, "sampler", or tessendorf_displacement, "field",
\* raised), last.wrote says whether it wrote the cache; last.before are the
\* vertex positions before the call, last.start those of the initial
\* scene, last.n the number of applies so far, last.prev the call before
\* the latest one.

\* Most apply_tessendorf_to_mesh calls on the object.
MaxApplies == 2

\* repr of a float: its sign and its digits.
Repr(n) == [neg |-> n < 0, digits |-> Abs(n)]

\* str(orig_positions): the text of a list of [x, y, z] lists.
Str(positions) ==
    [i \in 1..Len(positions) |-> [j \in 1..3 |-> Repr(positions[i][j])]]

\* The float a repr reads back as.
Literal(r) == IF r.neg THEN -r.digits ELSE r.digits

\* eval(pos_string)
Eval(text) == [i \in 1..Len(text) |-> [j \in 1..3 |-> Literal(text[i][j])]]

\* The smallest and the largest of a non-empty set of numbers.
Min(S) == CHOOSE m \in S : \A n \in S : m <= n

Max(S) == CHOOSE m \in S : \A n \in S : m >= n

\* cmds.exactWorldBoundingBox(obj_name): xmin, ymin, zmin, xmax, ymax, zmax
\* of the current vertex positions.
exactWorldBoundingBox(vtx) ==
    LET along(j) == { vtx[i][j] : i \in 1..Len(vtx) }
    IN  <<Min(along(1)), Min(along(2)), Min(along(3)),
          Max(along(1)), Max(along(2)), Max(along(3))>>

\* The new position written to the vertex's current position, not to the
\* cached original one.
PlaceOnCurrent(orig, current, t) ==
    <<current[1] + t[2], current[2] + t[1], current[3] + t[3]>>

\* Lines 196-198: new_x, new_y, new_z from the cached original position
\* orig and the triple t = <<height, disp_x, disp_z>>.
PlaceVertex(orig, current, t) ==
    <<orig[1] + t[2], orig[2] + t[1], orig[3] + t[3]>>

\* The apply in progress (last.ret = "running") is between two vertices:
\* tessendorf_displacement is not being evaluated for it.
BetweenVertices ==
    /\ last.op = "apply"
    /\ last.ret = "running"
    /\ frames["c1"].pc = "idle"

\* Lines 168-171 and 183-187: <<ocean_x, ocean_z>> of the cached position
\* o, for the bounding box bbox with non-zero width and depth.
OceanPoint(o, bbox, patch_size) ==
    LET obj_width == bbox[4] - bbox[1]
        obj_depth == bbox[6] - bbox[3]
        center_x  == FDiv(bbox[1] + bbox[4], 2 * ONE)
        center_z  == FDiv(bbox[3] + bbox[6], 2 * ONE)
    IN  <<FMul(FDiv(o[1] - center_x, obj_width), patch_size),
          FMul(FDiv(o[3] - center_z, obj_depth), patch_size)>>

\* obj_width or obj_depth is 0: the division of line 186 or 187 raises.
ZeroExtent(bbox) == bbox[4] - bbox[1] = 0 \/ bbox[6] - bbox[3] = 0

\* apply_tessendorf_to_mesh storing the original positions before it tests
\* the object's shape.
ApplyCachingFirst(p) ==
    /\ last.ret # "running"
    /\ last.n < MaxApplies
    /\ mesh' = [mesh EXCEPT !.attr = TRUE,
                   !.text = IF mesh.attr THEN mesh.text ELSE Str(mesh.vtx)]
    /\ last' = [last EXCEPT !.prev = [op |-> last.op, ret |-> last.ret, p |-> last.p],
                             !.op = "apply",
                             !.ret = IF mesh.kind # "mesh" THEN "False" ELSE "running",
                             !.err = "none", !.at = "none", !.p = p, !.coords = <<>>,
                             !.before = mesh.vtx, !.n = last.n + 1,
                             !.wrote = ~mesh.attr, !.i = 1,
                             !.bbox = IF mesh.kind # "mesh" THEN last.bbox
                                      ELSE exactWorldBoundingBox(mesh.vtx)]
    /\ UNCHANGED <<rng, frames, noted, ph, scripts>>

\* Lines 131-179 of apply_tessendorf_to_mesh(obj_name, ...) with the
\* parameters p (p.time is time_value): False when the object is missing,
\* has no shape or is not a polygon mesh; otherwise the cache is written if
\* there is none yet, the bounding box is taken and the vertex loop starts.
Apply(p) ==
    /\ last.ret # "running"
    /\ last.n < MaxApplies
    /\ IF mesh.kind # "mesh"
       THEN /\ UNCHANGED mesh
            /\ last' = [last EXCEPT !.prev = [op |-> last.op, ret |-> last.ret, p |-> last.p],
                                     !.op = "apply", !.ret = "False", !.err = "none",
                                     !.at = "none", !.p = p, !.coords = <<>>,
                                     !.before = mesh.vtx, !.n = last.n + 1,
                                     !.wrote = FALSE]
       ELSE /\ mesh' = [mesh EXCEPT !.attr = TRUE,
                           !.text = IF mesh.attr THEN mesh.text ELSE Str(mesh.vtx)]
            /\ last' = [last EXCEPT !.prev = [op |-> last.op, ret |-> last.ret, p |-> last.p],
                                     !.op = "apply", !.ret = "running", !.err = "none",
                                     !.at = "none", !.p = p, !.coords = <<>>,
                                     !.before = mesh.vtx, !.n = last.n + 1,
                                     !.wrote = ~mesh.attr, !.i = 1,
                                     !.bbox = exactWorldBoundingBox(mesh.vtx)]
    /\ UNCHANGED <<rng, frames, noted, ph, scripts>>

\* Lines 186-187 when the bounding box has no width or no depth.
ApplyRaise ==
    /\ BetweenVertices
    /\ last.i <= Len(Eval(mesh.text))
    /\ ZeroExtent(last.bbox)
    /\ last' = [last EXCEPT !.ret = "raised", !.err = "ZeroDivisionError",
                             !.at = "sampler"]
    /\ UNCHANGED <<rng, frames, noted, ph, mesh, ui, scripts>>

\* Lines 183-193: the call of tessendorf_displacement for vertex last.i.
ApplyVertex ==
    /\ BetweenVertices
    /\ last.i <= Len(Eval(mesh.text))
    /\ ~ZeroExtent(last.bbox)
    /\ LET c == OceanPoint(Eval(mesh.text)[last.i], last.bbox, last.p.patch_size)
       IN  PlainCall("c1", [last.p EXCEPT !.x = c[1], !.z = c[2]])

\* The call of tessendorf_displacement raised: so does the apply.
ApplyFails ==
    /\ last.op = "apply" /\ last.ret = "running"
    /\ frames["c1"].pc = "error"
    /\ last' = [last EXCEPT !.ret = "raised", !.err = frames["c1"].err,
                             !.at = "field",
                             !.coords = Append(last.coords,
                                 <<frames["c1"].a.x, frames["c1"].a.z>>)]
    /\ frames' = [frames EXCEPT !["c1"] = Idle]
    /\ UNCHANGED <<rng, noted, ph, mesh, ui, scripts>>

\* Lines 190-201: the triple returned for vertex last.i is added to its
\* cached position and written to the vertex.
ApplyPlace ==
    /\ last.op = "apply" /\ last.ret = "running"
    /\ frames["c1"].pc = "done"
    /\ mesh' = [mesh EXCEPT !.vtx[last.i] =
                    PlaceVertex(Eval(mesh.text)[last.i], mesh.vtx[last.i], Result("c1"))]
    /\ last' = [last EXCEPT !.i = last.i + 1,
                             !.coords = Append(last.coords,
                                 <<frames["c1"].a.x, frames["c1"].a.z>>)]
    /\ frames' = [frames EXCEPT !["c1"] = Idle]
    /\ UNCHANGED <<rng, noted, ph, ui, scripts>>

\* Lines 203-204: return True
ApplyReturn ==
    /\ BetweenVertices
    /\ last.i > Len(Eval(mesh.text))
    /\ last' = [last EXCEPT !.ret = "True"]
    /\ UNCHANGED <<rng, frames, noted, ph, mesh, ui, scripts>>

\* The vertices restored with enumerate counting from 1.
RestoredShifted(vtx, orig) ==
    [i \in 1..Len(vtx) |-> IF 1 < i /\ i <= Len(orig) + 1 THEN orig[i - 1] ELSE vtx[i]]

\* Lines 222-223: every cached position written back to its vertex.
Restored(vtx, orig) ==
    [i \in 1..Len(vtx) |-> IF i <= Len(orig) THEN orig[i] ELSE vtx[i]]

\* reset_mesh_to_original(obj_name): False when the object is missing or
\* has no cache; otherwise the cached positions are written back and the
\* call returns True.
Reset ==
    /\ last.op # "reset"
    /\ last.ret # "running"
    /\ IF mesh.kind = "missing" \/ ~mesh.attr
       THEN /\ UNCHANGED mesh
            /\ last' = [last EXCEPT !.prev = [op |-> last.op, ret |-> last.ret, p |-> last.p],
                                     !.op = "reset", !.ret = "False", !.err = "none",
                                     !.at = "none", !.coords = <<>>,
                                     !.before = mesh.vtx]
       ELSE /\ mesh' = [mesh EXCEPT !.vtx = Restored(mesh.vtx, Eval(mesh.text))]
            /\ last' = [last EXCEPT !.prev = [op |-> last.op, ret |-> last.ret, p |-> last.p],
                                     !.op = "reset", !.ret = "True", !.err = "none",
                                     !.at = "none", !.coords = <<>>,
                                     !.before = mesh.vtx]
    /\ UNCHANGED <<rng, frames, noted, ph, scripts>>

\* The objects the deformer is tried on: a square in the xz-plane, a
\* triangle standing in the xy-plane (its depth is 0), and the three kinds
\* of object apply_tessendorf_to_mesh turns down.
Meshes ==
    { [NoMesh EXCEPT !.kind = "mesh",
                     !.vtx = << <<-ONE, 0, -ONE>>, <<ONE, 0, -ONE>>,
                                <<-ONE, 0, ONE>>, <<ONE, 0, ONE>> >>],
      [NoMesh EXCEPT !.kind = "mesh",
                     !.vtx = << <<-ONE, 0, 0>>, <<ONE, 0, 0>>, <<0, 2 * ONE, 0>> >>],
      [NoMesh EXCEPT !.kind = "curve"],
      [NoMesh EXCEPT !.kind = "transform"],
      NoMesh }

\* The parameters of an apply: resolution 2, patch_size 8.0, time_value 0.0
\* or 1.0.
MeshArgs == ArgsOver({<<0, 0, 0>>, <<0, 0, ONE>>}, {2}, {8 * ONE}, WindSpeeds, Seeds)

InitMesh ==
    /\ rng = [stream |-> 0, pos |-> 0]
    /\ frames = [c \in Calls |-> Idle]
    /\ noted = NotNoted
    /\ ph = NoCall
    /\ mesh \in Meshes
    /\ last = [NoOp EXCEPT !.start = mesh.vtx]
    /\ ui = NoUI
    /\ rope = NoRope
    /\ pick = NoPick
    /\ sx = NoNoise

\* apply_tessendorf_to_mesh and reset_mesh_to_original called from a
\* script, the window left alone.
DirectApply(p) == Apply(p) /\ UNCHANGED ui

DirectReset == Reset /\ UNCHANGED ui

NextMesh ==
    \/ \E p \in MeshArgs : DirectApply(p)
    \/ ApplyRaise
    \/ ApplyVertex
    \/ Step("c1")
    \/ ApplyFails
    \/ ApplyPlace
    \/ ApplyReturn
    \/ DirectReset

SpecMesh == InitMesh /\ [][NextMesh]_vars

\* ------------------------------------------------------------------------
\* Properties
\* ------------------------------------------------------------------------

Finished(c) == frames[c].pc = "done"

\* The lattice indices with draws in the frame of invocation c, in order of
\* their first draw.
DrawnVectors(c) ==
    LET d == frames[c].draws
    IN  [m \in 1..((Len(d) + 1) \div 2) |-> <<d[2 * m - 1].nx, d[2 * m - 1].nz>>]

\* <<nx, nz>> comes before <<mx, mz>> in a sweep with nx in the outer loop,
\* both ascending.
SweepBefore(v, u) == v[1] < u[1] \/ (v[1] = u[1] /\ v[2] < u[2])

\* C1: for fixed arguments tessendorf_displacement returns the same triple
\* on every call, whatever happened before the call: two finished
\* invocations with equal arguments hold equal triples.
C1_SameArgumentsSameTriple ==
    \A c, d \in Calls :
        (Finished(c) /\ Finished(d) /\ frames[c].a = frames[d].a)
            => Result(c) = Result(d)

\* Two finished invocations with equal arguments and a non-zero height.
C1_Witness ==
    /\ Finished("c1") /\ Finished("c2")
    /\ frames["c1"].a = frames["c2"].a
    /\ frames["c1"].height # 0

\* C2: a call reseeds the generator with seed exactly once, before its
\* first draw; its j-th draw is draw j-1 of the stream that reseed started;
\* draws come two per summed wave vector (the vector's draws 2i and 2i+1
\* for the i-th summed vector), the summed vectors in sweep order (nx
\* ascending, then nz ascending); a finished call has drawn for exactly the
\* lattice indices that are not skipped.
C2_ReseedOnceThenDrawInSweepOrder ==
    \A c \in Calls :
        LET f == frames[c]
            d == f.draws
            v == DrawnVectors(c)
        IN  /\ f.pc \in {"idle", "seed"} => f.reseeds = 0 /\ d = <<>>
            /\ f.pc \in {"loop", "imag", "done"} => f.reseeds = 1
            /\ f.reseeds <= 1
            /\ \A j \in 1..Len(d) : d[j].stream = f.a.seed /\ d[j].pos = j - 1
            /\ \A j \in 1..Len(d) : <<d[j].nx, d[j].nz>> = v[(j + 1) \div 2]
            /\ \A m \in 1..Len(v), n \in 1..Len(v) : m < n => SweepBefore(v[m], v[n])
            /\ f.pc \in {"loop", "done"} => Len(d) % 2 = 0
            /\ f.pc = "imag" => Len(d) % 2 = 1
            /\ f.pc = "done" =>
                  { v[m] : m \in 1..Len(v) } =
                  { u \in { Sweep(f.a.resolution)[j] : j \in 1..Len(Sweep(f.a.resolution)) } :
                      ~Skipped(WaveVector(f.dk, u)) }

\* A finished call of resolution 3 that summed eight wave vectors, after an
\* earlier call had left the generator elsewhere.
C2_Witness ==
    /\ Finished("c1")
    /\ frames["c1"].a.resolution = 3
    /\ Len(frames["c1"].draws) = 16
    /\ noted.stream # 0

\* C3 (as claimed): for every resolution >= 1, odd or even, the lattice
\* indices a finished call swept are exactly the integer pairs with
\* -resolution/2 <= nx < resolution/2 and -resolution/2 <= nz < resolution/2,
\* without (0,0).
C3_SweptIndicesAsClaimed ==
    \A c \in Calls :
        Finished(c) =>
            LET r == frames[c].a.resolution
                swept == { Sweep(r)[j] : j \in 1..(frames[c].i - 1) }
                box == (-r)..r
            IN  swept \ {<<0, 0>>} =
                { u \in box \X box :
                    /\ -r <= 2 * u[1] /\ 2 * u[1] < r
                    /\ -r <= 2 * u[2] /\ 2 * u[2] < r } \ {<<0, 0>>}

\* C4 (as claimed): with resolution = 2 and dk at or above the threshold a
\* call completes without error, and when finished it has summed exactly
\* the three wave vectors {-1,0} x {-1,0} minus the origin with six draws.
C4_ResolutionTwoCompletes ==
    \A c \in Calls :
        LET f == frames[c]
        IN  (f.pc # "idle" /\ f.a.resolution = 2 /\ f.a.patch_size > 0
                /\ WaveStep(f.a.patch_size) >= EPS)
            => /\ f.pc # "error"
               /\ f.pc = "done" =>
                    /\ Len(f.draws) = 6
                    /\ { DrawnVectors(c)[m] : m \in 1..3 }
                         = { <<-1, -1>>, <<-1, 0>>, <<0, -1>> }

\* The draws two invocations made for the same lattice index agree.
SameDraws(c, d) ==
    \A j \in 1..Len(frames[c].draws), k \in 1..Len(frames[d].draws) :
        LET p == frames[c].draws[j]
            q == frames[d].draws[k]
        IN  (p.nx = q.nx /\ p.nz = q.nz /\ j % 2 = k % 2) => p.g = q.g

\* C5 (as claimed): for a fixed seed the pair of draws forming h0 of lattice
\* index (nx, nz) is the same in any two evaluations with that seed, also
\* when they differ in resolution, patch_size, point or time.
C5_DrawsBySeedAndIndex ==
    \A c, d \in Calls :
        frames[c].a.seed = frames[d].a.seed => SameDraws(c, d)

\* C5 (amended): the pair of draws forming h0 of lattice index (nx, nz) is
\* the same in any two evaluations with the same seed, resolution and
\* patch_size, also when they differ in point or time.
C5_DrawsBySeedLatticeAndIndex ==
    \A c, d \in Calls :
        (/\ frames[c].a.seed = frames[d].a.seed
         /\ frames[c].a.resolution = frames[d].a.resolution
         /\ frames[c].a.patch_size = frames[d].a.patch_size)
            => SameDraws(c, d)

\* Two finished evaluations with the same seed, resolution and patch_size
\* at different points, both with draws.
C5_Witness ==
    /\ Finished("c1") /\ Finished("c2")
    /\ frames["c1"].a.seed = frames["c2"].a.seed
    /\ frames["c1"].a.resolution = frames["c2"].a.resolution
    /\ frames["c1"].a.patch_size = frames["c2"].a.patch_size
    /\ frames["c1"].a.x # frames["c2"].a.x
    /\ Len(frames["c1"].draws) > 2
    /\ Len(frames["c2"].draws) > 2

\* C6 (as claimed): when tessendorf_displacement returns, the process-wide
\* generator is in the state it was in before the call.
C6_GeneratorUntouched ==
    [][\A c \in Calls :
          (frames[c].pc = "loop" /\ frames'[c].pc = "done") => rng' = noted]_vars

\* C7 (as claimed): with the steps of two calls interleaved in any order,
\* each call returns the triple it returns when run alone.
C7_InterleavedAsAlone ==
    \A c \in Calls :
        Finished(c) => Result(c) = tessendorf_displacement(frames[c].a).out

\* C8: phillips_spectrum returns exactly 0 whenever |k| < 0.0001 (that is,
\* kx^2 + kz^2 below the squared threshold), for every wind speed and wind
\* direction, and has evaluated no division when it returns.
C8_DegenerateKReturnsZero ==
    (ph.called /\ ph.kx * ph.kx + ph.kz * ph.kz < EPS * EPS)
        => /\ ph.out.err = "none"
           /\ ph.out.val = 0
           /\ \A j \in 1..Len(ph.out.ops) : ph.out.ops[j].op # "div"

\* A call with a non-zero wave vector below the threshold.
C8_Witness ==
    /\ ph.called
    /\ ph.kx # 0
    /\ ph.kx * ph.kx + ph.kz * ph.kz < EPS * EPS
    /\ ph.wind_speed > 0

\* Well-formed parameters of tessendorf_displacement.
WellFormed(a) == a.resolution >= 1 /\ a.patch_size > 0 /\ a.wind_speed > 0

\* C9 (as claimed): for well-formed parameters no step of
\* tessendorf_displacement or phillips_spectrum fails: no division has a
\* zero denominator and no square root a negative argument.
C9_NoStepFails ==
    /\ \A c \in Calls :
          (frames[c].pc # "idle" /\ WellFormed(frames[c].a)) => frames[c].pc # "error"
    /\ (ph.called /\ ph.wind_speed > 0) =>
          /\ ph.out.err = "none"
          /\ \A j \in 1..Len(ph.out.ops) : ~Fails(ph.out.ops[j])

\* C10: the value phillips_spectrum returns is >= 0 for every input, so
\* P_k * 0.5, whose square root tessendorf_displacement takes, is >= 0.
C10_SpectrumNonNegative ==
    (ph.called /\ ph.out.err = "none")
        => ph.out.val >= 0 /\ FMul(ph.out.val, ONE \div 2) >= 0

\* A call that returned positive energy for a wave vector with negative
\* components.
C10_Witness ==
    /\ ph.called
    /\ ph.out.err = "none"
    /\ ph.out.val > 0
    /\ ph.kx < 0
    /\ ph.kz < 0

\* C11 (as claimed): with wind_speed = 0 phillips_spectrum returns energy 0
\* for every wave vector and tessendorf_displacement returns height 0 and
\* displacement (0, 0) at every point, neither raising an error.
C11_ZeroWindZeroEnergy ==
    (ph.called /\ ph.wind_speed = 0)
        => /\ ph.out.err = "none"
           /\ ph.out.val = 0
           /\ \A a \in ArgsOver(Samples, {2}, PatchSizes, {0}, Seeds) :
                 /\ tessendorf_displacement(a).err = "none"
                 /\ tessendorf_displacement(a).out = <<0, 0, 0>>

\* C12 (as claimed): a call of tessendorf_displacement with patch_size = 0,
\* patch_size < 0 or resolution = 0 never returns a triple.
C12_IllFormedNeverReturns ==
    \A c \in Calls :
        (/\ frames[c].pc # "idle"
         /\ (frames[c].a.patch_size <= 0 \/ frames[c].a.resolution = 0))
            => ~Finished(c)

\* What a call of phillips_spectrum came to: the exception and the value.
Outcome(r) == <<r.err, r.val>>

\* |(wind_dir_x, wind_dir_z)| of the direct call of phillips_spectrum.
PhWindLength == FSqrt(FMul(ph.wind_dir_x, ph.wind_dir_x) + FMul(ph.wind_dir_z, ph.wind_dir_z))

\* |(kx, kz)| of the direct call of phillips_spectrum.
PhKLength == FSqrt(FMul(ph.kx, ph.kx) + FMul(ph.kz, ph.kz))

\* The same call with the wave vector and the wind direction negated.
PhNegated ==
    phillips_spectrum(-ph.kx, -ph.kz, ph.wind_speed, -ph.wind_dir_x, -ph.wind_dir_z)

C14_AgainstWindReturnsZero ==
    (/\ ph.called
     /\ PhKLength >= EPS
     /\ WindAlignment(ph.kx, ph.kz, ph.wind_dir_x, ph.wind_dir_z) < 0)
        => ph.out.err = "none" /\ ph.out.val = 0

\* The factor (k_dot_w * k_dot_w) of line 54 without the clamp of lines
\* 37-38.
AlignmentSquare(k_dot_w) == FMul(k_dot_w, k_dot_w)

\* The same call of phillips_spectrum with the clamp removed.
PhUnclamped ==
    SpectrumWith(ph.kx, ph.kz, ph.wind_speed, ph.wind_dir_x, ph.wind_dir_z,
                 AlignmentSquare(WindAlignment(ph.kx, ph.kz, ph.wind_dir_x,
                                               ph.wind_dir_z)))

\* C15 (as claimed): for every input phillips_spectrum returns what it
\* returns with the clamp removed.
C15_ClampChangesNothing ==
    ph.called => Outcome(ph.out) = Outcome(PhUnclamped)

\* C15 (amended): phillips_spectrum comes to the same as with the clamp
\* removed for every input whose cos(theta) is not negative (or whose wave
\* vector is below the threshold).
C15_ClampChangesNothingWithTheWind ==
    (/\ ph.called
     /\ \/ PhKLength < EPS
        \/ WindAlignment(ph.kx, ph.kz, ph.wind_dir_x, ph.wind_dir_z) >= 0)
        => Outcome(ph.out) = Outcome(PhUnclamped)

\* A call with 0 < cos(theta) < 0.5 that returned positive energy.
C15_Witness ==
    /\ ph.called
    /\ PhKLength >= EPS
    /\ WindAlignment(ph.kx, ph.kz, ph.wind_dir_x, ph.wind_dir_z) > 0
    /\ WindAlignment(ph.kx, ph.kz, ph.wind_dir_x, ph.wind_dir_z) < ONE \div 2
    /\ ph.out.err = "none"
    /\ ph.out.val > 0

\* C16: for a wind direction of magnitude below the threshold, (0, 0)
\* included, phillips_spectrum comes to the same as for wind direction
\* (1, 0), and the two divisions by the wind length (lines 27-28) divide
\* by 1.0.
C16_NearZeroWindIsUnitX ==
    (ph.called /\ PhWindLength < EPS)
        => /\ Outcome(ph.out) =
                Outcome(phillips_spectrum(ph.kx, ph.kz, ph.wind_speed, ONE, 0))
           /\ \A j \in 1..Len(ph.out.ops) : j \in {4, 5} => ph.out.ops[j].arg = ONE

\* A call with a non-zero wind direction below the threshold, not along
\* +x, that returned positive energy.
C16_Witness ==
    /\ ph.called
    /\ PhWindLength < EPS
    /\ ph.wind_dir_z # 0
    /\ ph.out.err = "none"
    /\ ph.out.val > 0

\* The triple tessendorf_displacement returns for vertex i of the latest
\* apply: the parameters of that apply at the coordinates passed for i.
TripleOf(i) ==
    tessendorf_displacement(
        [last.p EXCEPT !.x = last.coords[i][1], !.z = last.coords[i][2]]).out

\* C17: after apply_tessendorf_to_mesh returned True, every vertex i is at
\* cached_original[i] + (displacement_x, height, displacement_z) of the
\* triple evaluated for that vertex, whatever position the vertex had
\* before the call.
C17_PlacedOnCachedOriginal ==
    (last.op = "apply" /\ last.ret = "True")
        => /\ Len(last.coords) = Len(mesh.vtx)
           /\ \A i \in 1..Len(mesh.vtx) :
                 LET o == Eval(mesh.text)[i]
                     t == TripleOf(i)
                 IN  mesh.vtx[i] = <<o[1] + t[2], o[2] + t[1], o[3] + t[3]>>

\* A second apply that returned True on a mesh the first apply had
\* deformed, and moved it again.
C17_Witness ==
    /\ last.op = "apply"
    /\ last.ret = "True"
    /\ last.n = 2
    /\ last.before # Eval(mesh.text)
    /\ mesh.vtx # last.before
    /\ mesh.vtx # Eval(mesh.text)

\* C18 (as claimed): the attribute originalPositions is written only by
\* the first successful apply (one that returns True), then holds the
\* vertex positions the mesh had at that moment, and no later apply or
\* reset changes it.
C18_CacheWrittenOnceBySuccess ==
    [][/\ mesh.attr => (mesh'.attr /\ mesh'.text = mesh.text)
       /\ (~mesh.attr /\ mesh'.attr) =>
             /\ last'.op = "apply"
             /\ Eval(mesh'.text) = mesh.vtx
       /\ (last'.op = "apply" /\ last'.wrote /\ last'.ret # "running") =>
             last'.ret = "True"]_vars

\* C19: after reset_mesh_to_original returned True every vertex is at its
\* cached position, and after any applies followed by a reset the mesh has
\* the vertex positions it had before the first apply.
C19_ResetRestoresCache ==
    last.op = "reset"
        => /\ mesh.vtx = last.start
           /\ last.ret = "True" => mesh.vtx = Eval(mesh.text)

\* A reset that returned True after two applies and moved the vertices.
C19_Witness ==
    /\ last.op = "reset"
    /\ last.ret = "True"
    /\ last.n = 2
    /\ last.before # mesh.vtx

\* C20 (as claimed): in every apply on a polygon mesh, also after earlier
\* applies, the normalization divides by no zero extent and the
\* coordinates (ocean_x, ocean_z) passed to tessendorf_displacement lie
\* within [-patch_size/2, patch_size/2] on each axis.
C20_CoordinatesInDomain ==
    (last.op = "apply" /\ mesh.kind = "mesh")
        => /\ last.at # "sampler"
           /\ \A i \in 1..Len(last.coords) :
                 /\ 2 * Abs(last.coords[i][1]) <= last.p.patch_size
                 /\ 2 * Abs(last.coords[i][2]) <= last.p.patch_size

\* C21 (as claimed): whenever a wave vector is summed, the contribution c
\* it adds to height is also applied to the displacement: displacement_x
\* changes by -choppiness * (kx / |k|) * c and displacement_z by
\* -choppiness * (kz / |k|) * c, also for |k| exactly on the threshold.
C21_EveryTermDisplaces ==
    [][\A c \in Calls :
          (frames[c].pc = "imag" /\ frames'[c].pc = "loop") =>
              LET w   == Current(c)
                  a   == frames[c].a
                  dh  == frames'[c].height - frames[c].height
              IN  /\ frames'[c].displacement_x - frames[c].displacement_x =
                        FMul(FMul(-a.choppiness, FDiv(w.kx, w.k_length)), dh)
                  /\ frames'[c].displacement_z - frames[c].displacement_z =
                        FMul(FMul(-a.choppiness, FDiv(w.kz, w.k_length)), dh)]_vars

\* C24 (as claimed): apply_tessendorf_to_mesh applied twice in a row with
\* the same parameters (choppiness > 0) leaves every vertex where the first
\* apply left it.
C24_ApplyTwiceAsOnce ==
    (/\ last.op = "apply" /\ last.ret = "True"
     /\ last.prev.op = "apply" /\ last.prev.ret = "True"
     /\ last.prev.p = last.p)
        => mesh.vtx = last.before

\* C25: a call of apply_tessendorf_to_mesh or reset_mesh_to_original that
\* returns False leaves the scene as it was: no vertex is moved and the
\* attribute originalPositions is neither created nor modified.
C25_FalseLeavesSceneUnchanged ==
    [][(last' # last /\ last'.ret = "False") => mesh' = mesh]_vars

\* An apply on an object whose shape is not a mesh returned False.
C25_Witness ==
    /\ last.op = "apply"
    /\ last.ret = "False"
    /\ mesh.kind = "curve"
    /\ ~mesh.attr

-----------------------------------------------------------------------------
\* get_random_farthest_points (src/Noise_Curve_Insied_Object*.py): two
\* vertices of a mesh drawn at random until a pair is min_distance apart.

\* max_attempts (line 14): the draws made before the fallback.
max_attempts == 100

\* om.MVector.length() of pos_start - pos_end.
Length(a, b) ==
    FSqrt(FMul(a[1] - b[1], a[1] - b[1]) + FMul(a[2] - b[2], a[2] - b[2])
          + FMul(a[3] - b[3], a[3] - b[3]))

\* The pairs i < j in the order of the two loops of get_farthest_points.
PairsInOrder(n) ==
    [m \in 1..((n * (n - 1)) \div 2) |->
        CHOOSE q \in (1..n) \X (1..n) :
            /\ q[1] < q[2]
            /\ m = Cardinality({r \in (1..n) \X (1..n) :
                                  /\ r[1] < r[2]
                                  /\ \/ r[1] < q[1]
                                     \/ r[1] = q[1] /\ r[2] <= q[2]})]

\* get_farthest_points: the first pair, in loop order, whose distance is
\* strictly above every earlier one; verts[0] twice when no distance is
\* above max_dist = 0.
get_farthest_points(verts) ==
    LET order == PairsInOrder(Len(verts))
        dist(m) == Length(verts[order[m][1]], verts[order[m][2]])
        best == {m \in 1..Len(order) :
                    /\ dist(m) > 0
                    /\ \A l \in 1..Len(order) :
                          /\ dist(l) <= dist(m)
                          /\ l < m => dist(l) < dist(m)}
    IN  IF best = {} THEN <<verts[1], verts[1]>>
        ELSE LET m == CHOOSE m \in best : TRUE
             IN  <<verts[order[m][1]], verts[order[m][2]]>>

\* The pair returned when every attempt failed: the farthest pair in
\* Noise_Curve_Insied_Object.py and ..._addPipes.py (lines 23-24, 19-20),
\* the first and the last vertex in ..._add_freq_taper.py (line 54).
FallbackPair(verts, fallback) ==
    IF fallback = "farthest" THEN get_farthest_points(verts)
    ELSE <<verts[1], verts[Len(verts)]>>

\* The meshes of the calls: a segment, a triangle whose longest side is
\* not between its first and last vertex, a unit square, a single point.
PickMeshes ==
    { << <<0, 0, 0>>, <<ONE, 0, 0>> >>,
      << <<0, 0, 0>>, <<3 * ONE, 0, 0>>, <<0, 0, ONE>> >>,
      << <<0, 0, 0>>, <<ONE, 0, 0>>, <<ONE, 0, ONE>>, <<0, 0, ONE>> >>,
      << <<0, ONE, 0>> >> }

\* min_distance: zero, the default 1.0, two and ten units.
PickDistances == {0, ONE, 2 * ONE, 10 * ONE}

\* get_random_farthest_points(mesh, min_distance) is called.
PickCall(verts, min_distance, fallback) ==
    /\ pick.pc = "idle"
    /\ pick' = [pc |-> "loop", verts |-> verts, min_distance |-> min_distance,
                fallback |-> fallback, attempt |-> 0, ret |-> <<>>]
    /\ UNCHANGED <<rng, frames, noted, ph, mesh, last, ui, rope, sx>>

\* One pass of the loop: two random.choice draws, returned when they are
\* min_distance apart.
Attempt ==
    /\ pick.pc = "loop"
    /\ pick.attempt < max_attempts
    /\ \E start_v, end_v \in 1..Len(pick.verts) :
          LET pos_start == pick.verts[start_v]
              pos_end == pick.verts[end_v]
          IN  pick' = IF Length(pos_start, pos_end) >= pick.min_distance
                      THEN [pick EXCEPT !.pc = "done",
                                        !.ret = <<pos_start, pos_end>>]
                      ELSE [pick EXCEPT !.attempt = @ + 1]
    /\ UNCHANGED <<rng, frames, noted, ph, mesh, last, ui, rope, sx>>

\* The loop ran out: the fallback pair is returned.
Fallback ==
    /\ pick.pc = "loop"
    /\ pick.attempt = max_attempts
    /\ pick' = [pick EXCEPT !.pc = "done",
                            !.ret = FallbackPair(pick.verts, pick.fallback)]
    /\ UNCHANGED <<rng, frames, noted, ph, mesh, last, ui, rope, sx>>

NextPick ==
    \/ \E verts \in PickMeshes, d \in PickDistances,
          f \in {"farthest", "ends"} : PickCall(verts, d, f)
    \/ Attempt
    \/ Fallback

SpecPick == Init /\ [][NextPick]_vars

\* C23: the two points get_random_farthest_points returns are at least
\* min_distance apart, for every mesh and every min_distance, the fallback
\* after 100 failed attempts included.
C23_ReturnedPairFarEnough ==
    pick.pc = "done" =>
        Length(pick.ret[1], pick.ret[2]) >= pick.min_distance

-----------------------------------------------------------------------------
\* SimplexNoise.noise3d (src/Mountain_Maya.py).

\* self.grad3: the twelve gradient directions.
grad3 ==
    << <<1, 1, 0>>, <<-1, 1, 0>>, <<1, -1, 0>>, <<-1, -1, 0>>,
       <<1, 0, 1>>, <<-1, 0, 1>>, <<1, 0, -1>>, <<-1, 0, -1>>,
       <<0, 1, 1>>, <<0, -1, 1>>, <<0, 1, -1>>, <<0, -1, -1>> >>

\* self.perm[n]: a permutation of 0..255 repeated twice.  The shuffle of
\* random.Random(seed) is stood for by one fixed permutation of 0..255.
perm(n) == ((n % 256) * 167 + 13) % 256

\* self.dot(g, x, y, z)
dot(g, x, y, z) == g[1] * x + g[2] * y + g[3] * z

\* The skewing and unskewing factors 1.0/3.0 and 1.0/6.0.
F3 == ONE \div 3

G3 == ONE \div 6

\* math.floor of a real, as an integer.
Floor(x) == x \div ONE

\* The offsets (i1, j1, k1) and (i2, j2, k2) of the second and the third
\* corner, by the order of x0, y0 and z0.
SimplexOrder(x0, y0, z0) ==
    IF x0 >= y0
    THEN IF y0 >= z0 THEN << <<1, 0, 0>>, <<1, 1, 0>> >>
         ELSE IF x0 >= z0 THEN << <<1, 0, 0>>, <<1, 0, 1>> >>
         ELSE << <<0, 0, 1>>, <<1, 0, 1>> >>
    ELSE IF y0 < z0 THEN << <<0, 0, 1>>, <<0, 1, 1>> >>
         ELSE IF x0 < z0 THEN << <<0, 1, 0>>, <<0, 1, 1>> >>
         ELSE << <<0, 1, 0>>, <<1, 1, 0>> >>

\* t_i = 0.6 - x*x - y*y - z*z: the falloff term of a corner.
FalloffTerm(x, y, z) ==
    (6 * ONE) \div 10 - FMul(x, x) - FMul(y, y) - FMul(z, z)

\* The weight in a contribution: the product of four factors, taken left
\* to right as the source multiplies them.
Product4(a, b, c, d) == FMul(FMul(FMul(a, b), c), d)

\* n0, n2 and n3 (lines 72, 76, 78): t_i * t_i * t_i * t_i * dot, zero
\* when t_i is not positive.
CornerOwn(ti, d) == IF ti > 0 THEN FMul(Product4(ti, ti, ti, ti), d) ELSE 0

\* n1 (line 74): t1 * t1 * t * t * dot, where t is the unskewing offset
\* (i + j + k) * G3 of line 28, zero when t1 is not positive.
CornerSecond(t1, t, d) == IF t1 > 0 THEN FMul(Product4(t1, t1, t, t), d) ELSE 0

\* noise3d(xin, yin, zin): every local the claims speak of, and the value
\* returned.
noise3d(xin, yin, zin) ==
    LET s == FMul(xin + yin + zin, F3)
        i == Floor(xin + s)
        j == Floor(yin + s)
        k == Floor(zin + s)
        t == (i + j + k) * G3
        x0 == xin - (i * ONE - t)
        y0 == yin - (j * ONE - t)
        z0 == zin - (k * ONE - t)
        o == SimplexOrder(x0, y0, z0)
        x1 == x0 - o[1][1] * ONE + G3
        y1 == y0 - o[1][2] * ONE + G3
        z1 == z0 - o[1][3] * ONE + G3
        x2 == x0 - o[2][1] * ONE + 2 * G3
        y2 == y0 - o[2][2] * ONE + 2 * G3
        z2 == z0 - o[2][3] * ONE + 2 * G3
        x3 == x0 - ONE + 3 * G3
        y3 == y0 - ONE + 3 * G3
        z3 == z0 - ONE + 3 * G3
        ii == i % 256
        jj == j % 256
        kk == k % 256
        gi0 == perm(ii + perm(jj + perm(kk))) % 12
        gi1 == perm(ii + o[1][1] + perm(jj + o[1][2] + perm(kk + o[1][3]))) % 12
        gi2 == perm(ii + o[2][1] + perm(jj + o[2][2] + perm(kk + o[2][3]))) % 12
        gi3 == perm(ii + 1 + perm(jj + 1 + perm(kk + 1))) % 12
        t0 == FalloffTerm(x0, y0, z0)
        t1 == FalloffTerm(x1, y1, z1)
        t2 == FalloffTerm(x2, y2, z2)
        t3 == FalloffTerm(x3, y3, z3)
        d0 == dot(grad3[gi0 + 1], x0, y0, z0)
        d1 == dot(grad3[gi1 + 1], x1, y1, z1)
        d2 == dot(grad3[gi2 + 1], x2, y2, z2)
        d3 == dot(grad3[gi3 + 1], x3, y3, z3)
        n0 == CornerOwn(t0, d0)
        n1 == CornerSecond(t1, t, d1)
        n2 == CornerOwn(t2, d2)
        n3 == CornerOwn(t3, d3)
    IN  [called |-> TRUE, xin |-> xin, yin |-> yin, zin |-> zin,
         t |-> t, falloff |-> <<t0, t1, t2, t3>>, dots |-> <<d0, d1, d2, d3>>,
         n |-> <<n0, n1, n2, n3>>, out |-> 32 * (n0 + n1 + n2 + n3)]

\* The coordinates of the calls, on both sides of zero and across cells.
NoisePoints ==
    {-(3 * ONE) \div 4, -ONE \div 4, ONE \div 10, ONE \div 5, ONE \div 2,
     (6 * ONE) \div 5}

\* simplex.noise3d(xin, yin, zin) is called.
NoiseCall(xin, yin, zin) ==
    /\ ~sx.called
    /\ sx' = noise3d(xin, yin, zin)
    /\ UNCHANGED <<rng, frames, noted, ph, mesh, last, ui, rope, pick>>

NextSimplex == \E xin, yin, zin \in NoisePoints : NoiseCall(xin, yin, zin)

SpecSimplex == Init /\ [][NextSimplex]_vars

\* C28: each corner contribution n_i of noise3d is the fourth power of
\* that corner's own falloff term t_i times its gradient dot product (zero
\* when t_i is not positive); no other variable enters the weight.
C28_WeightIsOwnFourthPower ==
    sx.called =>
        \A c \in 1..4 : sx.n[c] = CornerOwn(sx.falloff[c], sx.dots[c])

-----------------------------------------------------------------------------
\* get_mesh_centers and create_rope (src/Lines_Between_Spheres.py).

MaxFaces == 3

\* fnMesh.getPolygonVertices(f) of the faces a mesh is built from: two
\* triangles that share vertex 2 and two that share nothing.
FaceShapes == {{0, 1, 2}, {2, 3, 4}, {5, 6, 7}, {8, 9, 10}}

\* The meshes: faces 0 .. n-1, each with the vertices of one shape.
RopeMeshes == UNION {[0..(n - 1) -> FaceShapes] : n \in 0..MaxFaces}

\* fnMesh.getPoint(v)
getPoint(v) == <<v * ONE, (v % 3) * ONE, (v % 2) * ONE>>

\* vert_to_face (lines 26-29): for a vertex, the faces that use it.
vert_to_face(faces, v) == {f \in DOMAIN faces : v \in faces[f]}

\* Lines 38-41, without line 42: the faces that share a vertex with f,
\* those already in the component and f itself included.
NeighborsAll(faces, f, comp_faces) ==
    UNION {vert_to_face(faces, v) : v \in faces[f]}

\* Lines 38-42: the faces that share a vertex with f and are not yet in
\* the component.
Neighbors(faces, f, comp_faces) ==
    UNION {vert_to_face(faces, v) : v \in faces[f]} \ comp_faces

\* The orders in which a set can be appended to a list.
Orders(S) ==
    {q \in [1..Cardinality(S) -> S] : \A a \in S : \E i \in DOMAIN q : q[i] = a}

\* sum(verts, om.MVector(0,0,0)) / len(verts) over the vertices of a
\* component (lines 50-54).
Center(faces, comp) ==
    LET vert_ids == UNION {faces[f] : f \in comp}
        top == 3 * MaxFaces + 2
        sum[v \in -1..top] ==
            IF v = -1 THEN <<0, 0, 0>>
            ELSE IF v \in vert_ids
                 THEN <<sum[v - 1][1] + getPoint(v)[1],
                        sum[v - 1][2] + getPoint(v)[2],
                        sum[v - 1][3] + getPoint(v)[3]>>
                 ELSE sum[v - 1]
        n == Cardinality(vert_ids)
    IN  <<TruncDiv(sum[top][1], n), TruncDiv(sum[top][2], n),
          TruncDiv(sum[top][3], n)>>

\* sorted(centers, key=lambda v: v.x): ascending x, equal keys in their
\* order in the list (line 57).
SortedByX(centers) ==
    LET place(m) ==
            1 + Cardinality({l \in DOMAIN centers :
                                \/ centers[l][1] < centers[m][1]
                                \/ centers[l][1] = centers[m][1] /\ l < m})
    IN  [r \in DOMAIN centers |->
            centers[CHOOSE m \in DOMAIN centers : place(m) = r]]

\* list(combinations(items, 2)) (lines 97, 116)
combinations(items) ==
    LET order == PairsInOrder(Len(items))
    IN  [m \in DOMAIN order |-> <<items[order[m][1]], items[order[m][2]]>>]

\* Line 99 with every pair taken: the pairs of full-mesh mode.
LinearPairsAll(centers) == combinations(centers)

\* Line 99: each centre with the next one.
LinearPairs(centers) ==
    [i \in 1..(Len(centers) - 1) |-> <<centers[i], centers[i + 1]>>]

\* The default sag_amount, -2.0.
sag_amount == -2 * ONE

\* create_arc_curve_between_points with noise_amp = 0.0: num_cvs points
\* from p0 to p1, lowered by sin(pi t) * sag_amount.
create_arc_curve_between_points(p0, p1, num_cvs) ==
    [c \in 1..num_cvs |->
        LET t == FDiv((c - 1) * ONE, (num_cvs - 1) * ONE)
            arc_y == FMul(FSin(FMul(PI, t)), sag_amount)
        IN  <<FMul(p0[1], ONE - t) + FMul(p1[1], t),
              FMul(p0[2], ONE - t) + FMul(p1[2], t) + arc_y,
              FMul(p0[3], ONE - t) + FMul(p1[3], t)>>]

\* create_rope(obj, num_cvs, full_mesh=..., curve_to_curve=...) is called
\* and get_mesh_centers starts (lines 88, 25-31).
RopeCall(faces, num_cvs, full_mesh, curve_to_curve) ==
    /\ rope.pc = "idle"
    /\ rope' = [NoRope EXCEPT !.pc = "outer", !.faces = faces,
                              !.num_cvs = num_cvs, !.full_mesh = full_mesh,
                              !.curve_to_curve = curve_to_curve,
                              !.all_faces = DOMAIN faces]
    /\ UNCHANGED <<rng, frames, noted, ph, mesh, last, ui, pick, sx>>

\* Lines 32-35: some face is popped and starts a component.
PopStart ==
    /\ rope.pc = "outer"
    /\ rope.all_faces # {}
    /\ \E start \in rope.all_faces :
          rope' = [rope EXCEPT !.pc = "inner",
                               !.all_faces = @ \ {start},
                               !.stack = <<start>>,
                               !.comp_faces = {start}]
    /\ UNCHANGED <<rng, frames, noted, ph, mesh, last, ui, pick, sx>>

\* Lines 36-44: the top of the stack is popped, its new neighbours pushed
\* in some order and added to the component.
Visit ==
    /\ rope.pc = "inner"
    /\ rope.stack # <<>>
    /\ LET f == rope.stack[Len(rope.stack)]
           neighbors == Neighbors(rope.faces, f, rope.comp_faces)
       IN  \E pushed \in Orders(neighbors) :
              rope' = [rope EXCEPT
                         !.stack = SubSeq(@, 1, Len(@) - 1) \o pushed,
                         !.comp_faces = @ \cup neighbors]
    /\ UNCHANGED <<rng, frames, noted, ph, mesh, last, ui, pick, sx>>

\* Lines 45-46: the stack is empty, the component is complete.
CloseComponent ==
    /\ rope.pc = "inner"
    /\ rope.stack = <<>>
    /\ rope' = [rope EXCEPT !.pc = "outer",
                            !.components = Append(@, rope.comp_faces),
                            !.all_faces = @ \ rope.comp_faces]
    /\ UNCHANGED <<rng, frames, noted, ph, mesh, last, ui, pick, sx>>

\* Lines 48-58: no face is left; one centre per component, sorted by x,
\* is returned to create_rope.
CentersReturn ==
    /\ rope.pc = "outer"
    /\ rope.all_faces = {}
    /\ rope' = [rope EXCEPT
                  !.pc = "rope",
                  !.centers = SortedByX([c \in DOMAIN rope.components |->
                                  Center(rope.faces, rope.components[c])])]
    /\ UNCHANGED <<rng, frames, noted, ph, mesh, last, ui, pick, sx>>

\* Lines 89-91: fewer than two centres, nothing is created.
NotEnough ==
    /\ rope.pc = "rope"
    /\ Len(rope.centers) < 2
    /\ rope' = [rope EXCEPT !.pc = "done", !.ret = <<>>]
    /\ UNCHANGED <<rng, frames, noted, ph, mesh, last, ui, pick, sx>>

\* Lines 93-105: one curve for each pair of centres.
SphereCurves ==
    /\ rope.pc = "rope"
    /\ Len(rope.centers) >= 2
    /\ LET sphere_pairs == IF rope.full_mesh THEN combinations(rope.centers)
                           ELSE LinearPairs(rope.centers)
           sphere_curves ==
               [m \in DOMAIN sphere_pairs |->
                   create_arc_curve_between_points(
                       sphere_pairs[m][1], sphere_pairs[m][2], rope.num_cvs)]
       IN  rope' = [rope EXCEPT !.pc = "step2",
                                !.sphere_curves = sphere_curves,
                                !.all_curves = sphere_curves]
    /\ UNCHANGED <<rng, frames, noted, ph, mesh, last, ui, pick, sx>>

\* Lines 108-118: with curve_to_curve, one more curve for each pair of
\* middle CVs of the curves of step 1.
CurveToCurve ==
    /\ rope.pc = "step2"
    /\ rope.curve_to_curve /\ rope.sphere_curves # <<>>
    /\ LET curve_centers ==
               [m \in DOMAIN rope.sphere_curves |->
                   rope.sphere_curves[m][(rope.num_cvs \div 2) + 1]]
           pairs == combinations(curve_centers)
       IN  rope' = [rope EXCEPT
                      !.pc = "step3",
                      !.all_curves = @ \o
                          [m \in DOMAIN pairs |->
                              create_arc_curve_between_points(
                                  pairs[m][1], pairs[m][2], rope.num_cvs)]]
    /\ UNCHANGED <<rng, frames, noted, ph, mesh, last, ui, pick, sx>>

\* Line 108, the other branch: no curve-to-curve connections.
NoCurveToCurve ==
    /\ rope.pc = "step2"
    /\ ~(rope.curve_to_curve /\ rope.sphere_curves # <<>>)
    /\ rope' = [rope EXCEPT !.pc = "step3"]
    /\ UNCHANGED <<rng, frames, noted, ph, mesh, last, ui, pick, sx>>

\* Lines 121-129: the curves are grouped under Rope_Curves_GRP and
\* returned.
GroupReturn ==
    /\ rope.pc = "step3"
    /\ rope' = [rope EXCEPT !.pc = "done",
                            !.grp = IF rope.all_curves # <<>>
                                    THEN rope.all_curves ELSE @,
                            !.ret = rope.all_curves]
    /\ UNCHANGED <<rng, frames, noted, ph, mesh, last, ui, pick, sx>>

\* CVs per curve: the least and the default value of the slider.
RopeCVs == {3, 7}

NextRope ==
    \/ \E faces \in RopeMeshes, num_cvs \in RopeCVs,
          full_mesh \in BOOLEAN, curve_to_curve \in BOOLEAN :
          RopeCall(faces, num_cvs, full_mesh, curve_to_curve)
    \/ PopStart
    \/ Visit
    \/ CloseComponent
    \/ CentersReturn
    \/ NotEnough
    \/ SphereCurves
    \/ CurveToCurve
    \/ NoCurveToCurve
    \/ GroupReturn

SpecRope == Init /\ [][NextRope]_vars

\* The faces linked to face a by a chain of faces in which each shares a
\* vertex with the next.
Chained(faces, a) ==
    LET n == Cardinality(DOMAIN faces)
        reach[k \in 0..n] ==
            IF k = 0 THEN {a}
            ELSE reach[k - 1] \cup
                 {g \in DOMAIN faces :
                     \E f \in reach[k - 1] : faces[f] \cap faces[g] # {}}
    IN  reach[n]

\* The number of connected pieces of a mesh.
Pieces(faces) == Cardinality({Chained(faces, a) : a \in DOMAIN faces})

\* get_mesh_centers has returned.
CentersReturned == rope.pc \notin {"idle", "outer", "inner"}

\* What is left for get_mesh_centers to do: the faces in no component
\* yet, the faces on the stack, and the loop it is in.
CentersMeasure ==
    4 * Cardinality(rope.all_faces \ rope.comp_faces) + 2 * Len(rope.stack)
    + (CASE rope.pc = "inner" -> 2 [] rope.pc = "outer" -> 1 [] OTHER -> 0)

-----------------------------------------------------------------------------
\* The window of create_tessendorf_ui and its four buttons.  The scene
\* holds one object, mesh, under the name ui.name; ui.selection is what
\* cmds.ls(selection=True) returns, ui.field the text of selectedObjField,
\* ui.event what the button pressed last did.

\* Lines 232 and 258: the field names no object.
NoObjectEmptyOnly(obj_text) == obj_text = ""

NoObject(obj_text) == obj_text = "" \/ obj_text = "None"

\* The values the sliders hold when Apply is pressed (lines 239-247).
UIArgs == ArgsOver({<<0, 0, 0>>}, {4}, {10 * ONE}, {6 * ONE}, {1, 42})

\* cmds.polyPlane(width=50, height=50, ..., name="ocean_plane"), stood for
\* by its four corners.
TestPlane ==
    [NoMesh EXCEPT !.kind = "mesh",
                   !.vtx = << <<-25 * ONE, 0, -25 * ONE>>, <<25 * ONE, 0, -25 * ONE>>,
                              <<-25 * ONE, 0, 25 * ONE>>, <<25 * ONE, 0, 25 * ONE>> >>]

\* No apply is between two of its steps: the window handles one button at
\* a time.
WindowIdle == last.ret # "running"

\* The user selects the object of the scene, or nothing.
Select(selection) ==
    /\ WindowIdle
    /\ selection # <<>> => mesh.kind # "missing" /\ selection = <<ui.name>>
    /\ ui' = [ui EXCEPT !.selection = selection]
    /\ UNCHANGED <<rng, frames, noted, ph, mesh, last, scripts>>

\* Get Selected: update_selection (lines 265-271).
update_selection ==
    /\ WindowIdle
    /\ ui' = [ui EXCEPT !.event = "get",
                        !.field = IF ui.selection # <<>> THEN ui.selection[1]
                                  ELSE "None"]
    /\ UNCHANGED <<rng, frames, noted, ph, mesh, last, scripts>>

\* Create Test: create_test_plane (lines 273-280).  The new plane is
\* selected and becomes the object the window works on.
create_test_plane ==
    /\ WindowIdle
    /\ mesh' = TestPlane
    /\ ui' = [ui EXCEPT !.event = "created", !.name = "ocean_plane",
                        !.selection = <<"ocean_plane">>,
                        !.field = "ocean_plane"]
    /\ UNCHANGED <<rng, frames, noted, ph, last, scripts>>

\* apply_tessendorf_to_mesh(obj_name, ...) for a name no object has: line
\* 131 returns False.
ApplyUnknown(p) ==
    /\ last.n < MaxApplies
    /\ UNCHANGED mesh
    /\ last' = [last EXCEPT !.prev = [op |-> last.op, ret |-> last.ret, p |-> last.p],
                             !.op = "apply", !.ret = "False", !.err = "none",
                             !.at = "none", !.p = p, !.coords = <<>>,
                             !.before = mesh.vtx, !.n = last.n + 1,
                             !.wrote = FALSE]
    /\ UNCHANGED <<rng, frames, noted, ph, scripts>>

\* Apply Ocean Waves: apply_deformer_from_ui (lines 228-252).
apply_deformer_from_ui(p) ==
    /\ WindowIdle
    /\ LET obj_text == ui.field
       IN  IF NoObject(obj_text)
           THEN /\ ui' = [ui EXCEPT !.event = "No Object"]
                /\ UNCHANGED <<rng, frames, noted, ph, mesh, last, scripts>>
           ELSE /\ ui' = [ui EXCEPT !.event = "apply"]
                /\ IF obj_text = ui.name THEN Apply(p) ELSE ApplyUnknown(p)

\* reset_mesh_to_original(obj_name) for a name no object has: line 208
\* returns False.
ResetUnknown ==
    /\ last.op # "reset"
    /\ UNCHANGED mesh
    /\ last' = [last EXCEPT !.prev = [op |-> last.op, ret |-> last.ret, p |-> last.p],
                             !.op = "reset", !.ret = "False", !.err = "none",
                             !.at = "none", !.coords = <<>>,
                             !.before = mesh.vtx]
    /\ UNCHANGED <<rng, frames, noted, ph, scripts>>

\* Reset to Original: reset_mesh_from_ui (lines 254-263).
reset_mesh_from_ui ==
    /\ WindowIdle
    /\ LET obj_text == ui.field
       IN  IF ~NoObject(obj_text)
           THEN /\ ui' = [ui EXCEPT !.event = "reset"]
                /\ IF obj_text = ui.name THEN Reset ELSE ResetUnknown
           ELSE /\ ui' = [ui EXCEPT !.event = "No Object"]
                /\ UNCHANGED <<rng, frames, noted, ph, mesh, last, scripts>>

\* The window is opened on a scene with one of the objects of Meshes,
\* named pPlane1, or with no object.
InitUI ==
    /\ rng = [stream |-> 0, pos |-> 0]
    /\ frames = [c \in Calls |-> Idle]
    /\ noted = NotNoted
    /\ ph = NoCall
    /\ mesh \in Meshes
    /\ last = [NoOp EXCEPT !.start = mesh.vtx]
    /\ ui = [NoUI EXCEPT !.name = "pPlane1"]
    /\ rope = NoRope
    /\ pick = NoPick
    /\ sx = NoNoise

\* With the values of UIArgs no operation of tessendorf_displacement
\* fails, so its steps are the ones that draw, skip and return.
NextUI ==
    \/ \E selection \in {<<>>, <<ui.name>>} : Select(selection)
    \/ update_selection
    \/ create_test_plane
    \/ \E p \in UIArgs : apply_deformer_from_ui(p)
    \/ reset_mesh_from_ui
    \/ ApplyRaise
    \/ ApplyVertex
    \/ Reseed("c1") \/ Skip("c1") \/ DrawReal("c1") \/ DrawImag("c1") \/ Return("c1")
    \/ ApplyPlace
    \/ ApplyReturn

SpecUI == InitUI /\ [][NextUI]_vars

\* C26: whatever buttons are pressed, apply_tessendorf_to_mesh and
\* reset_mesh_to_original are called only while the selected-object field
\* holds a non-empty text other than "None"; while it does not, the Apply
\* and Reset buttons show the No Object dialog, no call is made and no
\* vertex of a mesh moves.
C26_ButtonsNeedAnObject ==
    [][(ui.field = "" \/ ui.field = "None") =>
          /\ last' = last
          /\ ui'.event \notin {"apply", "reset"}
          /\ mesh' # mesh => ui'.event = "created" /\ mesh' = TestPlane]_vars

C26_Witness ==
    /\ ui.field = "None"
    /\ ui.event = "No Object"
    /\ last.op = "apply" /\ last.ret = "True"
    /\ mesh.vtx # last.before

=============================================================================
